---------------------------- MODULE Spec2Model ----------------------------
(***************************************************************************)
(* Model of the datalogger sketch dataloggerTFG.ino: the filename helpers, *)
(* the session start/stop routines, the HTTP command router, the serial    *)
(* console state machine and the periodic logging step of loop().          *)
(*                                                                         *)
(* Text is modelled as a sequence of one-character strings, so that        *)
(* trimming, upper-casing, filtering and truncation are computed as the    *)
(* code computes them.                                                     *)
(***************************************************************************)
EXTENDS Integers, Sequences, FiniteSets, TLC

(***************************************************************************)
(* Bounds of the model                                                     *)
(***************************************************************************)
MaxLabelLen == 3      \* short labels: every text of at most this length
MaxLongLen  == 9      \* long labels: lengths MaxBase-1 .. MaxLongLen
MaxNow      == 4      \* the clock stops advancing after MaxNow * TickMs ms
MaxLines    == 2      \* no file is opened for writing once the card holds this many lines
TickMs      == 500    \* granularity of the modelled millisecond clock
ClockBits   == 16     \* width of the modelled unsigned clock arithmetic

(***************************************************************************)
(* Characters and the Arduino String helpers                               *)
(***************************************************************************)
LowerCase == <<"a","b","c","d","e","f","g","h","i","j","k","l","m",
               "n","o","p","q","r","s","t","u","v","w","x","y","z">>
UpperCase == <<"A","B","C","D","E","F","G","H","I","J","K","L","M",
               "N","O","P","Q","R","S","T","U","V","W","X","Y","Z">>
Digits    == {"0","1","2","3","4","5","6","7","8","9"}

\* toupper() / tolower() on one character
ToUpper(c) ==
  IF \E i \in 1..26 : LowerCase[i] = c
    THEN UpperCase[CHOOSE i \in 1..26 : LowerCase[i] = c]
    ELSE c
ToLower(c) ==
  IF \E i \in 1..26 : UpperCase[i] = c
    THEN LowerCase[CHOOSE i \in 1..26 : UpperCase[i] = c]
    ELSE c

\* isspace()
IsSpace(c) == c \in {" ", "\t", "\n", "\r"}

\* String::toUpperCase()
toUpperCase(s) == [i \in 1..Len(s) |-> ToUpper(s[i])]

\* String::trim(): drops the leading and the trailing whitespace
RECURSIVE TrimLeft(_)
TrimLeft(s) ==
  IF s # <<>> /\ IsSpace(Head(s)) THEN TrimLeft(Tail(s)) ELSE s
RECURSIVE TrimRight(_)
TrimRight(s) ==
  IF s # <<>> /\ IsSpace(s[Len(s)]) THEN TrimRight(SubSeq(s, 1, Len(s) - 1)) ELSE s
trim(s) == TrimRight(TrimLeft(s))

\* String::equalsIgnoreCase()
equalsIgnoreCase(a, b) ==
  /\ Len(a) = Len(b)
  /\ \A i \in 1..Len(a) : ToLower(a[i]) = ToLower(b[i])

(***************************************************************************)
(* Filename helpers (nombreValidoBasico, to83BaseName,                     *)
(* buildCsvFilenameFromBase)                                               *)
(***************************************************************************)
invalidos == {"/", "\\", ":", "*", "?", "\"", "<", ">", "|"}

\* A faulty variant of nombreValidoBasico: the empty name is let through.
nombreValidoBasico_AceptaVacio(nombre) ==
  /\ (Len(nombre) > 0 => nombre[1] # ".")
  /\ \A i \in 1..Len(nombre) : nombre[i] \notin invalidos

\* A faulty variant of nombreValidoBasico: only the first character is compared with
\* the invalid ones.
nombreValidoBasico_SoloPrimero(nombre) ==
  /\ Len(nombre) # 0
  /\ nombre[1] # "."
  /\ nombre[1] \notin invalidos

nombreValidoBasico(nombre) ==
  /\ Len(nombre) # 0
  /\ nombre[1] # "."
  /\ \A i \in 1..Len(nombre) : nombre[i] \notin invalidos

MaxBase == 8

\* A faulty variant of the loop of to83BaseName: the characters it drops
\* count toward the 8.
RECURSIVE To83Loop_CuentaTodos(_, _, _)
To83Loop_CuentaTodos(in, i, out) ==
  IF i <= Len(in) /\ i <= MaxBase
    THEN LET c == in[i]
         IN  IF (\E k \in 1..26 : UpperCase[k] = c) \/ c \in Digits
               THEN To83Loop_CuentaTodos(in, i + 1, Append(out, c))
               ELSE IF c = "-" \/ c = " " \/ c = "."
                      THEN To83Loop_CuentaTodos(in, i + 1, Append(out, "_"))
                      ELSE To83Loop_CuentaTodos(in, i + 1, out)
    ELSE out

\* The loop of to83BaseName: i is the index of the next character read.
RECURSIVE To83Loop(_, _, _)
To83Loop(in, i, out) ==
  IF i <= Len(in) /\ Len(out) < MaxBase
    THEN LET c == in[i]
         IN  IF (\E k \in 1..26 : UpperCase[k] = c) \/ c \in Digits
               THEN To83Loop(in, i + 1, Append(out, c))
               ELSE IF c = "-" \/ c = " " \/ c = "."
                      THEN To83Loop(in, i + 1, Append(out, "_"))
                      ELSE To83Loop(in, i + 1, out)
    ELSE out

to83BaseName(in) ==
  LET out == To83Loop(toUpperCase(trim(in)), 1, <<>>)
  IN  IF Len(out) = 0 THEN <<"L", "O", "G">> ELSE out

buildCsvFilenameFromBase(base) ==
  to83BaseName(base) \o <<".", "C", "S", "V">>

(***************************************************************************)
(* State of the sketch                                                     *)
(***************************************************************************)
VARIABLES
  pc,            \* where the sketch is: "setup", the three parts of loop(), or "halt"
  estado,        \* int estado: 0 menu, 1 start name, 2 read, 3 delete, 4 session active
  nombreArchivo, \* String nombreArchivo
  logFile,       \* File logFile: whether it is open and on which file
  lastLoop,      \* unsigned long lastLoop
  tiempo_s,      \* unsigned long tiempo_s
  now,           \* the value millis() returns
  sd,            \* the card: stored name |-> the lines of the file
  consolaNuevo,  \* the messages the latest step passed to logMsg, in order
  disparos,      \* the readings `ahora` of the last two sample cycles of the session
  respuesta,     \* what the latest step sent to the HTTP client
  ultimaLineaCSV,\* String ultimaLineaCSV, the live snapshot served at /last: its t_s
  webNuevo,      \* the line the latest step assigned to ultimaLineaCSV, with its fields
  lastWebPushMs, \* unsigned long lastWebPushMs
  serieNuevo,    \* what the latest step wrote to Serial without logMsg, in order
  t0,            \* history: the value of millis() at the latest successful start
  detenida,      \* history: a session was stopped since loop() last called handleWifiClient
  sanPc, sanLabel, sanOut,  \* the filename helpers applied to one label
  logPc,         \* whether the console buffer is being exercised: "off" or "log"
  consola,       \* String consola, the buffer served at /log
  todo,          \* history: every message passed to logMsg, each followed by "\n"
  ultimoMsg,     \* history: the message of the latest logMsg call
  llamadas,      \* history: the number of logMsg calls so far
  real,          \* history: milliseconds since start-up, without wrap-around
  arranque       \* history: milliseconds since start-up when the session was started

vars == <<pc, estado, nombreArchivo, logFile, lastLoop, tiempo_s, now, sd,
          consolaNuevo, disparos, respuesta, ultimaLineaCSV, lastWebPushMs,
          serieNuevo, webNuevo, t0, detenida, sanPc, sanLabel, sanOut,
          logPc, consola, todo, ultimoMsg, llamadas, real, arranque>>
sesionVars == <<estado, nombreArchivo, logFile, lastLoop, tiempo_s, sd, disparos,
                ultimaLineaCSV, lastWebPushMs>>
histVars == <<t0, detenida>>
sanVars == <<sanPc, sanLabel, sanOut>>
logVars == <<logPc, consola, todo, ultimoMsg, llamadas>>
relojVars == <<real, arranque>>

PERIODO_LOG_MS == 1000
PERIODO_WEB_MS == 1000

\* unsigned long arithmetic
ULongMod == 2 ^ ClockBits
USub(a, b) == (a - b + ULongMod) % ULongMod
UAdd(a, b) == (a + b) % ULongMod

\* The header line of a session file ("t_s,VBUS1,...,PF_PZ") and one data
\* line.  Of the 15 fields of a data line only t_s is kept; the header
\* carries 0 in its place.
Cabecera == [tipo |-> "cabecera", t_s |-> 0]
DataLine(t) == [tipo |-> "dato", t_s |-> t]

\* What goes to Serial.println directly: the menu of mostrarMenu, the
\* DEBUG lines of setup(), the listing of printDirectory, the bytes of a
\* file dumped in estado 2, and the dataString of a sample cycle with its 15
\* fields (t_s, 8 of the two INA226, 6 of the PZEM).
Serie(tipo) == [tipo |-> tipo, campos |-> <<>>]
Menu == Serie("menu")
Registro(t, ina, pz) == [tipo |-> "dato", campos |-> <<t>> \o ina \o pz]
InaDe(reg) == SubSeq(reg.campos, 2, 9)
PzemDe(reg) == SubSeq(reg.campos, 10, 15)

\* The readings of the sensors in a sample cycle: VBUS, VSHUNT, I, P of each
\* INA226, and V, I, P, E, F, PF of the PZEM when readAll succeeds.
InaLeido == <<12, 3, 2, 24, 5, 1, 4, 20>>
PzemLeido == <<230, 2, 460, 7, 50, 1>>

\* The snapshot line: nothing, or t_s, six INA fields, and the current
\* and power of the PZEM.  Of the line that stays in ultimaLineaCSV
\* Guardada keeps t_s.
SinLinea == [vacia |-> TRUE, t_s |-> 0, ina |-> <<>>, ipz |-> 0, ppz |-> 0]
LineaWeb(t, ina, ipz, ppz) ==
  [vacia |-> FALSE, t_s |-> t,
   ina |-> <<ina[1], ina[3], ina[4], ina[5], ina[7], ina[8]>>,
   ipz |-> ipz, ppz |-> ppz]
Guardada(linea) == [vacia |-> linea.vacia, t_s |-> linea.t_s]

\* A message passed to logMsg with no origin in front.
Msg(text) == <<"", text>>

\* Nothing sent to an HTTP client, and the answers of the router: the
\* status line and what the body is.
SinRespuesta == [codigo |-> 0, cuerpo |-> ""]
Respuesta(codigo, cuerpo) == [codigo |-> codigo, cuerpo |-> cuerpo]

\* A File object that is not open.
NoFile == [abierto |-> FALSE, archivo |-> <<>>]

(***************************************************************************)
(* The card.  Names are case-insensitive: a file is stored under its       *)
(* upper-cased name.                                                       *)
(***************************************************************************)
SdKey(name) == toUpperCase(name)
SdExists(card, name) == SdKey(name) \in DOMAIN card

\* SD.open(name, FILE_WRITE) followed by println(header): the file is
\* created when absent, and the write lands at its end.
SdAppend(card, name, line) ==
  IF SdExists(card, name)
    THEN [card EXCEPT ![SdKey(name)] = Append(@, line)]
    ELSE card @@ (SdKey(name) :> <<line>>)

\* SD.remove(name)
SdRemove(card, name) == [k \in DOMAIN card \ {SdKey(name)} |-> card[k]]

RECURSIVE SumLines(_, _)
SumLines(card, keys) ==
  IF keys = {} THEN 0
  ELSE LET k == CHOOSE x \in keys : TRUE
       IN  Len(card[k]) + SumLines(card, keys \ {k})
TotalLines(card) == SumLines(card, DOMAIN card)

(***************************************************************************)
(* iniciarSesionMedida and pararSesionMedida.  Each yields the values the  *)
(* routine leaves in the globals, the messages it logs and, for the start, *)
(* its return value.  openOk is the outcome of SD.open.                    *)
(***************************************************************************)
Actual ==
  [ok |-> FALSE, estado |-> estado, nombreArchivo |-> nombreArchivo,
   logFile |-> logFile, lastLoop |-> lastLoop, tiempo_s |-> tiempo_s,
   sd |-> sd, disparos |-> disparos, ultimaLineaCSV |-> ultimaLineaCSV,
   lastWebPushMs |-> lastWebPushMs, msgs |-> <<>>, serie |-> <<>>,
   web |-> SinLinea]

\* A faulty variant of the active-session test: a start during a session goes on.
YaHaySesion_Nunca == FALSE

\* if (estado == 4 && logFile)
YaHaySesion == estado = 4 /\ logFile.abierto

\* A faulty variant of the start: lastLoop is not set to millis().
iniciarSesionMedida_SinReloj(baseName, origen, openOk) ==
  IF ~nombreValidoBasico(baseName)
    THEN [Actual EXCEPT !.msgs = <<<<origen, "ERROR nombre invalido.">>>>]
  ELSE IF YaHaySesion
    THEN [Actual EXCEPT !.msgs =
            <<<<origen, "Ya hay una sesion activa. Para antes la sesion.">>>>]
  ELSE
    LET nombre == buildCsvFilenameFromBase(baseName)
        pedido == <<<<origen, "Nombre solicitado">>, <<origen, "Nombre final (8.3)">>>>
    IN  IF ~openOk
          THEN [Actual EXCEPT
                  !.nombreArchivo = nombre,
                  !.logFile = NoFile,
                  !.estado = 0,
                  !.msgs = Append(pedido,
                     <<origen, "ERROR no se pudo crear/abrir el archivo en SD.">>)]
          ELSE [ok |-> TRUE,
                estado |-> 4,
                nombreArchivo |-> nombre,
                logFile |-> [abierto |-> TRUE, archivo |-> SdKey(nombre)],
                lastLoop |-> lastLoop,
                tiempo_s |-> 0,
                sd |-> SdAppend(sd, nombre, Cabecera),
                disparos |-> <<>>,
                ultimaLineaCSV |-> ultimaLineaCSV,
                lastWebPushMs |-> lastWebPushMs,
                msgs |-> Append(pedido,
                   <<origen, "Sesion iniciada. Escriba 'back' o use STOP en la web.">>),
                serie |-> <<>>,
                web |-> SinLinea]

iniciarSesionMedida(baseName, origen, openOk) ==
  IF ~nombreValidoBasico(baseName)
    THEN [Actual EXCEPT !.msgs = <<<<origen, "ERROR nombre invalido.">>>>]
  ELSE IF YaHaySesion
    THEN [Actual EXCEPT !.msgs =
            <<<<origen, "Ya hay una sesion activa. Para antes la sesion.">>>>]
  ELSE
    LET nombre == buildCsvFilenameFromBase(baseName)
        pedido == <<<<origen, "Nombre solicitado">>, <<origen, "Nombre final (8.3)">>>>
    IN  IF ~openOk
          THEN [Actual EXCEPT
                  !.nombreArchivo = nombre,
                  !.logFile = NoFile,
                  !.estado = 0,
                  !.msgs = Append(pedido,
                     <<origen, "ERROR no se pudo crear/abrir el archivo en SD.">>)]
          ELSE [ok |-> TRUE,
                estado |-> 4,
                nombreArchivo |-> nombre,
                logFile |-> [abierto |-> TRUE, archivo |-> SdKey(nombre)],
                lastLoop |-> now,
                tiempo_s |-> 0,
                sd |-> SdAppend(sd, nombre, Cabecera),
                disparos |-> <<>>,
                ultimaLineaCSV |-> ultimaLineaCSV,
                lastWebPushMs |-> lastWebPushMs,
                msgs |-> Append(pedido,
                   <<origen, "Sesion iniciada. Escriba 'back' o use STOP en la web.">>),
                serie |-> <<>>,
                web |-> SinLinea]

\* A faulty variant of pararSesionMedida: the stop clears the sample counter.
pararSesionMedida_ReiniciaTiempo(origen) ==
  IF estado = 4
    THEN [Actual EXCEPT
            !.logFile = NoFile,
            !.estado = 0,
            !.tiempo_s = 0,
            !.msgs = <<<<origen, "Deteniendo sesion de medida...">>>>,
            !.serie = <<Menu>>]
    ELSE [Actual EXCEPT !.msgs = <<<<origen, "No hay sesion activa.">>>>]

\* A faulty variant of pararSesionMedida: the file is left open.
pararSesionMedida_SinCerrar(origen) ==
  IF estado = 4
    THEN [Actual EXCEPT
            !.estado = 0,
            !.msgs = <<<<origen, "Deteniendo sesion de medida...">>>>,
            !.serie = <<Menu>>]
    ELSE [Actual EXCEPT !.msgs = <<<<origen, "No hay sesion activa.">>>>]

\* A faulty variant of pararSesionMedida: with no session it still returns to the menu.
pararSesionMedida_SiempreMenu(origen) ==
  IF estado = 4
    THEN [Actual EXCEPT
            !.logFile = NoFile,
            !.estado = 0,
            !.msgs = <<<<origen, "Deteniendo sesion de medida...">>>>,
            !.serie = <<Menu>>]
    ELSE [Actual EXCEPT !.estado = 0,
                        !.msgs = <<<<origen, "No hay sesion activa.">>>>]

pararSesionMedida(origen) ==
  IF estado = 4
    THEN [Actual EXCEPT
            !.logFile = NoFile,
            !.estado = 0,
            !.msgs = <<<<origen, "Deteniendo sesion de medida...">>>>,
            !.serie = <<Menu>>]
    ELSE [Actual EXCEPT !.msgs = <<<<origen, "No hay sesion activa.">>>>]

\* The globals take the values a routine left.
Asignar(r) ==
  /\ estado' = r.estado
  /\ nombreArchivo' = r.nombreArchivo
  /\ logFile' = r.logFile
  /\ lastLoop' = r.lastLoop
  /\ tiempo_s' = r.tiempo_s
  /\ sd' = r.sd
  /\ disparos' = r.disparos
  /\ ultimaLineaCSV' = r.ultimaLineaCSV
  /\ lastWebPushMs' = r.lastWebPushMs
  /\ consolaNuevo' = r.msgs
  /\ serieNuevo' = r.serie
  /\ webNuevo' = r.web

\* What a routine did to the session, for the record.
Historia(r, antes) ==
  /\ t0' = IF r.ok THEN now ELSE t0
  /\ detenida' = (antes \/ (estado = 4 /\ r.estado # 4))

(***************************************************************************)
(* Inputs                                                                  *)
(***************************************************************************)
Back == <<"b", "a", "c", "k">>
FileA == <<"A", ".", "C", "S", "V">>
FileB == <<"B", ".", "C", "S", "V">>

\* Lines typed on the serial console, before loop() trims them: what a user
\* types at the menu, at the three prompts and during a session.
ConsoleLines(e) ==
  IF e = 0 THEN { <<"a">>, <<"b">>, <<"c">>, <<"x">> }
  ELSE IF e = 1 THEN { Back, <<" ", "a">>, <<"B">>, <<"a", "/">> }
  ELSE IF e = 2 \/ e = 3 THEN { <<"b", "a", "c", "k", " ">>, <<"a", ".", "c", "s", "v">>, FileB }
  ELSE { Back, <<"a">> }

\* The op and name parameters of a /cmd request: a label with a start, a
\* file name with a delete.
OpStart  == <<"s","t","a","r","t">>
OpStop   == <<"s","t","o","p">>
OpDelete == <<"d","e","l","e","t","e">>
WebOps == { OpStart, OpStop, OpDelete, <<"x">>, <<>> }
WebNames(op) ==
  IF op = OpStart THEN { <<"a">>, <<"b">>, <<".", "a">> }
  ELSE IF op = OpDelete THEN { <<"a", ".", "c", "s", "v">>,
                               <<" ", "B", ".", "C", "S", "V">>, <<>> }
  ELSE { <<>> }

\* The outcomes of SD.open(name, FILE_WRITE) in a step: it is called by a
\* start only.
Aperturas(inicia) == IF inicia THEN BOOLEAN ELSE {TRUE}

\* What the card holds when the sketch starts.
InitialCards == { [k \in {} |-> <<>>] }

(***************************************************************************)
(* setup()                                                                 *)
(***************************************************************************)
Init ==
  /\ pc = "setup"
  /\ estado = 0
  /\ nombreArchivo = <<>>
  /\ logFile = NoFile
  /\ lastLoop = 0
  /\ tiempo_s = 0
  /\ now = 0
  /\ sd \in InitialCards
  /\ consolaNuevo = <<>>
  /\ disparos = <<>>
  /\ respuesta = SinRespuesta
  /\ ultimaLineaCSV = Guardada(SinLinea) /\ lastWebPushMs = 0
  /\ serieNuevo = <<>> /\ webNuevo = SinLinea
  /\ t0 = 0 /\ detenida = FALSE
  /\ sanPc = "off" /\ sanLabel = <<>> /\ sanOut = [ok |-> FALSE, nombre |-> <<>>]
  /\ logPc = "off" /\ consola = <<>> /\ todo = <<>> /\ ultimoMsg = <<>>
  /\ llamadas = 0
  /\ real = 0 /\ arranque = 0

\* A faulty variant of the end of setup(): without a card the sketch stops.
FinDeSetup_SinTarjeta(ina1Ok, ina2Ok, sdOk, apOk) ==
  IF apOk /\ sdOk THEN "web" ELSE "halt"

\* if (status != WL_AP_LISTENING) { ...; while (true) {} }: nothing else in
\* setup() keeps loop() from being entered.
FinDeSetup(ina1Ok, ina2Ok, sdOk, apOk) == IF apOk THEN "web" ELSE "halt"

\* setup(), taken as one step once the serial port is open (setup() waits
\* for it in while (!Serial) {}).  WiFi.beginAP decides whether loop() is
\* ever entered.
Setup ==
  /\ pc = "setup"
  /\ \E ina1Ok, ina2Ok, sdOk, apOk \in BOOLEAN :
       /\ consolaNuevo' =
            << Msg(IF ina1Ok THEN "INA226 #1 inicializado"
                             ELSE "Error: INA226 #1 no responde"),
               Msg(IF ina2Ok THEN "INA226 #2 inicializado"
                             ELSE "Error: INA226 #2 no responde"),
               Msg(IF sdOk THEN "Tarjeta SD inicializada correctamente"
                           ELSE "Error: no se pudo inicializar la tarjeta SD"),
               Msg(IF apOk THEN "Servidor HTTP iniciado."
                           ELSE "FALLO al crear el AP WiFi.") >>
       /\ pc' = FinDeSetup(ina1Ok, ina2Ok, sdOk, apOk)
  /\ lastLoop' = now
  /\ tiempo_s' = 0
  /\ serieNuevo' = <<Serie("DEBUG: setup() iniciado")>>
                   \o (IF pc' = "halt" THEN <<>>
                       ELSE <<Serie("DEBUG: setup() terminado, mostrando menu"), Menu>>)
  /\ UNCHANGED <<estado, nombreArchivo, logFile, now, sd, disparos, respuesta,
                 ultimaLineaCSV, lastWebPushMs, webNuevo, histVars, sanVars, logVars, relojVars>>

\* Time passes between the steps of loop().
Tick ==
  /\ pc \in {"web", "serial", "sample"}
  /\ now < MaxNow * TickMs
  /\ now' = UAdd(now, TickMs)
  /\ UNCHANGED <<pc, sesionVars, consolaNuevo, serieNuevo, webNuevo, respuesta, histVars,
                 sanVars, logVars, relojVars>>

(***************************************************************************)
(* handleWifiClient() and processWebCommand()                              *)
(***************************************************************************)
\* Requests for routes other than /cmd: /log, a download, and a path the
\* router does not know.
Rutas ==
  { [ruta |-> "/log", nombre |-> <<>>],
    [ruta |-> "/download", nombre |-> FileA],
    [ruta |-> "/x", nombre |-> <<>>] }

Responder(q) ==
  IF q.ruta = "/" THEN Respuesta(200, "pagina")
  ELSE IF q.ruta = "/log" THEN Respuesta(200, "consola")
  ELSE IF q.ruta = "/last" THEN Respuesta(200, "ultimaLineaCSV")
  ELSE IF q.ruta = "/download"
    THEN IF SdExists(sd, q.nombre) THEN Respuesta(200, "archivo")
                                   ELSE Respuesta(404, "Archivo no encontrado")
  ELSE Respuesta(302, "")

WebRuta ==
  /\ pc = "web"
  /\ \E q \in Rutas : respuesta' = Responder(q)
  /\ pc' = "serial"
  /\ consolaNuevo' = <<>>
  /\ serieNuevo' = <<>>
  /\ webNuevo' = SinLinea
  /\ detenida' = FALSE
  /\ UNCHANGED <<sesionVars, now, t0, sanVars, logVars, relojVars>>

\* No client, or a client that sends nothing within the wait.
WebNoCmd ==
  /\ pc = "web"
  /\ pc' = "serial"
  /\ consolaNuevo' = <<>>
  /\ serieNuevo' = <<>>
  /\ webNuevo' = SinLinea
  /\ respuesta' = SinRespuesta
  /\ detenida' = FALSE
  /\ UNCHANGED <<sesionVars, now, t0, sanVars, logVars, relojVars>>

\* A faulty variant of the refusal test of the web delete: the letter case
\* has to match.
WebEnUso_SoloExacto(fname) ==
  estado = 4 /\ Len(nombreArchivo) > 0 /\ fname = nombreArchivo

\* The refusal test of the web delete.
WebEnUso(fname) ==
  estado = 4 /\ Len(nombreArchivo) > 0 /\ equalsIgnoreCase(fname, nombreArchivo)

processWebDelete(name) ==
  LET fname == trim(name)
  IN  IF Len(fname) = 0 THEN Actual
      ELSE IF WebEnUso(fname)
        THEN [Actual EXCEPT !.msgs =
                <<<<"WEB", "No se puede borrar el archivo en uso">>>>]
      ELSE IF SdExists(sd, fname)
        THEN [Actual EXCEPT !.sd = SdRemove(sd, fname),
                            !.msgs = <<<<"WEB", "Borrando">>,
                                       <<"WEB", "Borrado OK">>>>]
        ELSE [Actual EXCEPT !.msgs = <<<<"WEB", "Borrando">>,
                                       <<"WEB", "Error al borrar">>>>]

processWebCommand(op, name, openOk) ==
  IF op = OpStart THEN iniciarSesionMedida(name, "WEB", openOk)
  ELSE IF op = OpStop THEN pararSesionMedida("WEB")
  ELSE IF op = OpDelete THEN processWebDelete(name)
  ELSE [Actual EXCEPT !.msgs = <<<<"WEB", "Comando desconocido">>>>]

\* A faulty variant of the answer to /cmd: an error status when the command
\* logged an error or a refusal.
RespuestaCmd_SegunResultado(r) ==
  IF \E i \in 1..Len(r.msgs) :
        r.msgs[i][2] \in {"ERROR nombre invalido.", "Error al borrar",
                          "No hay sesion activa.", "Comando desconocido"}
    THEN Respuesta(500, "ERROR")
    ELSE Respuesta(200, "OK")

\* What handleWifiClient sends after processWebCommand has returned.
RespuestaCmd(r) == Respuesta(200, "OK")

\* A start is issued only while its header fits within MaxLines.
HayEspacio(r) == TotalLines(r.sd) > TotalLines(sd) => TotalLines(r.sd) <= MaxLines

WebCmd ==
  /\ pc = "web"
  /\ \E op \in WebOps :
     \E name \in WebNames(op), openOk \in Aperturas(op = OpStart) :
       LET r == processWebCommand(op, name, openOk)
       IN  /\ HayEspacio(r)
           /\ Asignar(r)
           /\ Historia(r, FALSE)
           /\ respuesta' = RespuestaCmd(r)
  /\ pc' = "serial"
  /\ UNCHANGED <<now, sanVars, logVars, relojVars>>

(***************************************************************************)
(* loop(), part 2: one line of the serial console                          *)
(***************************************************************************)
SerialNoInput ==
  /\ pc = "serial"
  /\ pc' = "sample"
  /\ consolaNuevo' = <<>>
  /\ serieNuevo' = <<>>
  /\ webNuevo' = SinLinea
  /\ respuesta' = SinRespuesta
  /\ UNCHANGED <<sesionVars, now, histVars, sanVars, logVars, relojVars>>

\* estado == 0
SerialMenu(entrada) ==
  IF entrada = <<"a">>
    THEN [Actual EXCEPT !.estado = 1,
                        !.msgs = <<Msg("Elige un nombre base para el archivo")>>]
  ELSE IF entrada = <<"b">>
    THEN [Actual EXCEPT !.estado = 2,
                        !.msgs = <<Msg("Escribe el nombre del archivo que quieres volcar")>>,
                        !.serie = <<Serie("listado")>>]
  ELSE IF entrada = <<"c">>
    THEN [Actual EXCEPT !.estado = 3,
                        !.msgs = <<Msg("Escribe el nombre del archivo que quieres borrar")>>]
  ELSE [Actual EXCEPT !.msgs = <<Msg("FALLO: comando no reconocido.")>>]

\* A faulty variant of the start prompt: after a refused label the prompt
\* is kept.
SerialNombre_SinVolver(entrada, openOk) ==
  IF entrada = Back THEN [Actual EXCEPT !.estado = 0, !.serie = <<Menu>>]
  ELSE iniciarSesionMedida(entrada, "SERIAL", openOk)

\* estado == 1
SerialNombre(entrada, openOk) ==
  IF entrada = Back THEN [Actual EXCEPT !.estado = 0, !.serie = <<Menu>>]
  ELSE LET r == iniciarSesionMedida(entrada, "SERIAL", openOk)
       IN  IF r.ok THEN r ELSE [r EXCEPT !.estado = 0, !.serie = <<Menu>>]

\* estado == 2
SerialLeer(entrada) ==
  IF entrada = Back THEN [Actual EXCEPT !.estado = 0, !.serie = <<Menu>>]
  ELSE IF ~SdExists(sd, entrada)
    THEN [Actual EXCEPT !.msgs =
            <<Msg("ERROR: no se pudo abrir el archivo para lectura."),
              Msg("Escribe 'back' para volver al menu o el nombre de otro archivo")>>]
    ELSE [Actual EXCEPT !.msgs =
            <<Msg("----- INICIO DEL ARCHIVO -----"), Msg("----- FIN DEL ARCHIVO -----"),
              Msg("Escribe 'back' para volver al menu o el nombre de otro archivo")>>,
                        !.serie = <<Serie("volcado")>>]

\* A faulty variant of the refusal test of the console delete: the handle
\* is not looked at.
SerialEnUso_SinHandle(entrada) ==
  Len(nombreArchivo) > 0 /\ equalsIgnoreCase(entrada, nombreArchivo)

\* The refusal test of the console delete.
SerialEnUso(entrada) ==
  logFile.abierto /\ Len(nombreArchivo) > 0 /\ equalsIgnoreCase(entrada, nombreArchivo)

\* estado == 3
SerialBorrar(entrada) ==
  IF entrada = Back THEN [Actual EXCEPT !.estado = 0, !.serie = <<Menu>>]
  ELSE IF SerialEnUso(entrada)
    THEN [Actual EXCEPT !.msgs =
            <<Msg("ERROR: No puedes borrar el archivo en uso. Para la sesion primero."),
              Msg("Escribe 'back' para volver al menu o el nombre de otro archivo")>>]
  ELSE IF SdExists(sd, entrada)
    THEN [Actual EXCEPT !.sd = SdRemove(sd, entrada),
                        !.msgs =
            <<Msg("Archivo borrado"),
              Msg("Escribe 'back' para volver al menu o el nombre de otro archivo")>>]
    ELSE [Actual EXCEPT !.msgs =
            <<Msg("ERROR: no se pudo borrar el archivo"),
              Msg("Escribe 'back' para volver al menu o el nombre de otro archivo")>>]

\* estado == 4
SerialSesion(entrada) ==
  IF entrada = Back THEN pararSesionMedida("SERIAL")
  ELSE [Actual EXCEPT !.msgs = <<Msg("Sesion activa. Escriba 'back' para detener.")>>]

SerialDispatch(entrada, openOk) ==
  IF estado = 0 THEN SerialMenu(entrada)
  ELSE IF estado = 1 THEN SerialNombre(entrada, openOk)
  ELSE IF estado = 2 THEN SerialLeer(entrada)
  ELSE IF estado = 3 THEN SerialBorrar(entrada)
  ELSE IF estado = 4 THEN SerialSesion(entrada)
  ELSE Actual

SerialLine ==
  /\ pc = "serial"
  /\ \E raw \in ConsoleLines(estado), openOk \in Aperturas(estado = 1) :
       LET r == SerialDispatch(trim(raw), openOk)
       IN  /\ HayEspacio(r)
           /\ Asignar(r)
           /\ Historia(r, detenida)
  /\ pc' = "sample"
  /\ respuesta' = SinRespuesta
  /\ UNCHANGED <<now, sanVars, logVars, relojVars>>

(***************************************************************************)
(* loop(), part 3: the periodic logging                                    *)
(***************************************************************************)
\* A faulty variant of the schedule: the next period is counted from the clock.
NextLastLoop_DesdeAhora(ahora) == UAdd(ahora, 0)

\* lastLoop += PERIODO_LOG_MS
NextLastLoop(ahora) == UAdd(lastLoop, PERIODO_LOG_MS)

\* A faulty variant of the period test: the clock alone decides.
SampleDue_SoloReloj(ahora) == USub(ahora, lastLoop) >= PERIODO_LOG_MS

\* A variant of the period test: no sample within one period of the previous one.
SampleDue_SinRafaga(ahora) ==
  /\ estado = 4 /\ logFile.abierto /\ USub(ahora, lastLoop) >= PERIODO_LOG_MS
  /\ (Len(disparos) > 0 => USub(ahora, disparos[Len(disparos)]) >= PERIODO_LOG_MS)

\* A faulty variant of the period test: the clock is compared with
\* lastLoop + PERIODO_LOG_MS.
SampleDue_Suma(ahora) ==
  estado = 4 /\ logFile.abierto /\ ahora >= UAdd(lastLoop, PERIODO_LOG_MS)

\* if (estado == 4 && logFile) ... if (ahora - lastLoop >= PERIODO_LOG_MS)
SampleDue(ahora) ==
  estado = 4 /\ logFile.abierto /\ USub(ahora, lastLoop) >= PERIODO_LOG_MS

\* logFile.println(dataString): the line lands at the end of the open file,
\* unless the write fails.
SdPrintln(card, handle, line, writeOk) ==
  IF writeOk /\ handle.abierto /\ handle.archivo \in DOMAIN card
    THEN [card EXCEPT ![handle.archivo] = Append(@, line)]
    ELSE card

\* The readings of the last two sample cycles.
Ultimos(ds, ahora) == IF Len(ds) = 0 THEN <<ahora>> ELSE <<ds[Len(ds)], ahora>>

\* pzem.readAll and the sentinel: the six PZEM fields of the cycle.
LeerPzem_SinCentinela(okPZEM) == PzemLeido
LeerPzem(okPZEM) == IF okPZEM THEN PzemLeido ELSE <<-1, -1, -1, -1, -1, -1>>

\* The refresh of ultimaLineaCSV at the end of a cycle, at most once per
\* PERIODO_WEB_MS: whether it is done, and the line it assigns.
RefrescoDue(ahora) == USub(ahora, lastWebPushMs) >= PERIODO_WEB_MS
RefrescoWeb(t, okPZEM) ==
  LineaWeb(t, InaLeido, IF okPZEM THEN LeerPzem(okPZEM)[2] ELSE -1,
                        IF okPZEM THEN LeerPzem(okPZEM)[3] ELSE -1)

\* A faulty variant of the sample cycle: tiempo_s counts the records that
\* were written.
SampleCycle_SoloSiEscribe(writeOk, okPZEM) ==
  [Actual EXCEPT
     !.lastLoop = NextLastLoop(now),
     !.tiempo_s = IF writeOk THEN tiempo_s + 1 ELSE tiempo_s,
     !.sd = SdPrintln(sd, logFile, DataLine(tiempo_s + 1), writeOk),
     !.disparos = Ultimos(disparos, now),
     !.web = IF RefrescoDue(now) THEN RefrescoWeb(tiempo_s + 1, okPZEM) ELSE SinLinea,
     !.ultimaLineaCSV = IF RefrescoDue(now)
                          THEN Guardada(RefrescoWeb(tiempo_s + 1, okPZEM))
                          ELSE ultimaLineaCSV,
     !.lastWebPushMs = IF RefrescoDue(now) THEN now ELSE lastWebPushMs,
     !.serie = <<Registro(tiempo_s + 1, InaLeido, LeerPzem(okPZEM))>>]

\* A faulty variant of the sample cycle: a failed write closes the session.
SampleCycle_CierraSiFalla(writeOk, okPZEM) ==
  [Actual EXCEPT
     !.lastLoop = NextLastLoop(now),
     !.tiempo_s = tiempo_s + 1,
     !.sd = SdPrintln(sd, logFile, DataLine(tiempo_s + 1), writeOk),
     !.disparos = Ultimos(disparos, now),
     !.web = IF RefrescoDue(now) THEN RefrescoWeb(tiempo_s + 1, okPZEM) ELSE SinLinea,
     !.ultimaLineaCSV = IF RefrescoDue(now)
                          THEN Guardada(RefrescoWeb(tiempo_s + 1, okPZEM))
                          ELSE ultimaLineaCSV,
     !.lastWebPushMs = IF RefrescoDue(now) THEN now ELSE lastWebPushMs,
     !.serie = <<Registro(tiempo_s + 1, InaLeido, LeerPzem(okPZEM))>>,
     !.estado = IF writeOk THEN estado ELSE 0,
     !.logFile = IF writeOk THEN logFile ELSE NoFile]

\* The body of the period test: lastLoop and tiempo_s move first, then the
\* sensors are read and the line is formatted, written to the file (what
\* println returns is not looked at) and to Serial; last comes the refresh
\* of the snapshot.  Of the line written to the file DataLine keeps t_s.
SampleCycle(writeOk, okPZEM) ==
  [Actual EXCEPT
     !.lastLoop = NextLastLoop(now),
     !.tiempo_s = tiempo_s + 1,
     !.sd = SdPrintln(sd, logFile, DataLine(tiempo_s + 1), writeOk),
     !.disparos = Ultimos(disparos, now),
     !.web = IF RefrescoDue(now) THEN RefrescoWeb(tiempo_s + 1, okPZEM) ELSE SinLinea,
     !.ultimaLineaCSV = IF RefrescoDue(now)
                          THEN Guardada(RefrescoWeb(tiempo_s + 1, okPZEM))
                          ELSE ultimaLineaCSV,
     !.lastWebPushMs = IF RefrescoDue(now) THEN now ELSE lastWebPushMs,
     !.serie = <<Registro(tiempo_s + 1, InaLeido, LeerPzem(okPZEM))>>]

SampleFire ==
  /\ pc = "sample"
  /\ SampleDue(now)
  /\ \E writeOk, okPZEM \in BOOLEAN : Asignar(SampleCycle(writeOk, okPZEM))
  /\ pc' = "web"
  /\ respuesta' = SinRespuesta
  /\ UNCHANGED <<now, histVars, sanVars, logVars, relojVars>>

SampleSkip ==
  /\ pc = "sample"
  /\ ~SampleDue(now)
  /\ consolaNuevo' = <<>>
  /\ serieNuevo' = <<>>
  /\ webNuevo' = SinLinea
  /\ pc' = "web"
  /\ respuesta' = SinRespuesta
  /\ UNCHANGED <<sesionVars, now, histVars, sanVars, logVars, relojVars>>

Next ==
  \/ Setup
  \/ Tick
  \/ WebNoCmd
  \/ WebRuta
  \/ WebCmd
  \/ SerialNoInput
  \/ SerialLine
  \/ SampleFire
  \/ SampleSkip

Spec == Init /\ [][Next]_vars

(***************************************************************************)
(* The filename helpers on their own: the name a start resolves for one    *)
(* label (the first lines of iniciarSesionMedida).                         *)
(***************************************************************************)
LabelChars == {"a", "Z", "7", "-", " ", ".", "/", "!", "|"}
LongChars  == {"a", "-", "!"}

SeqsOf(S, lo, hi) == UNION { [1..n -> S] : n \in lo..hi }

\* Two date labels, as a user types them.
Fecha1 == <<"1","1","-","1","2","-","2","0","2","5">>
Fecha2 == <<"2","0","2","5","-","0","1","-","1","4">>

Labels ==
  SeqsOf(LabelChars, 0, MaxLabelLen) \cup SeqsOf(LongChars, MaxBase - 1, MaxLongLen)
    \cup {Fecha1, Fecha2}

\* if (!nombreValidoBasico(baseName)) return false; ... buildCsvFilenameFromBase
ResolverNombre(baseName) ==
  IF ~nombreValidoBasico(baseName)
    THEN [ok |-> FALSE, nombre |-> <<>>]
    ELSE [ok |-> TRUE, nombre |-> buildCsvFilenameFromBase(baseName)]

SanInit ==
  /\ pc = "setup"
  /\ estado = 0
  /\ nombreArchivo = <<>>
  /\ logFile = NoFile
  /\ lastLoop = 0
  /\ tiempo_s = 0
  /\ now = 0
  /\ sd \in InitialCards
  /\ consolaNuevo = <<>>
  /\ disparos = <<>>
  /\ respuesta = SinRespuesta
  /\ ultimaLineaCSV = Guardada(SinLinea) /\ lastWebPushMs = 0
  /\ serieNuevo = <<>> /\ webNuevo = SinLinea
  /\ t0 = 0 /\ detenida = FALSE
  /\ sanPc = "in"
  /\ sanLabel \in Labels
  /\ sanOut = [ok |-> FALSE, nombre |-> <<>>]
  /\ logPc = "off" /\ consola = <<>> /\ todo = <<>> /\ ultimoMsg = <<>>
  /\ llamadas = 0
  /\ real = 0 /\ arranque = 0

SanApply ==
  /\ sanPc = "in"
  /\ sanOut' = ResolverNombre(sanLabel)
  /\ sanPc' = "out"
  /\ UNCHANGED <<pc, sesionVars, now, consolaNuevo, serieNuevo, webNuevo, respuesta,
                 histVars, sanLabel, logVars, relojVars>>

SanNext == SanApply

SpecSan == SanInit /\ [][SanNext]_vars

(***************************************************************************)
(* Properties of the filename helpers                                      *)
(***************************************************************************)
CsvExt == <<".", "C", "S", "V">>
StemChars == {UpperCase[i] : i \in 1..26} \cup Digits \cup {"_"}

\* ^[A-Z0-9_]{1,8}\.CSV$
IsLegacyName(f) ==
  /\ Len(f) >= 5 /\ Len(f) <= 12
  /\ SubSeq(f, Len(f) - 3, Len(f)) = CsvExt
  /\ \A i \in 1..(Len(f) - 4) : f[i] \in StemChars

HasRejectedChar(l) ==
  \E i \in 1..Len(l) : l[i] \in {"/", "\\", ":", "*", "?", "\"", "<", ">", "|"}
StartsWithDot(l) == Len(l) > 0 /\ l[1] = "."

LogCsv == <<"L", "O", "G", ".", "C", "S", "V">>
Dots == <<".", ".", ".">>

\* C9 as claimed: a label with a rejected character or a leading '.' fails
\* with InvalidName, and every other label yields a name matching
\* ^[A-Z0-9_]{1,8}\.CSV$.
C9_AsClaimed ==
  sanPc = "out" =>
    IF HasRejectedChar(sanLabel) \/ StartsWithDot(sanLabel)
      THEN ~sanOut.ok
      ELSE sanOut.ok /\ IsLegacyName(sanOut.nombre)

\* C9, amended: a label that is empty, contains a rejected character or
\* starts with '.' fails with InvalidName; every other label yields a name
\* of 1 to 8 characters of [A-Z0-9_] followed by ".CSV".
C9_Sanitize ==
  sanPc = "out" =>
    IF Len(sanLabel) = 0 \/ HasRejectedChar(sanLabel) \/ StartsWithDot(sanLabel)
      THEN ~sanOut.ok
      ELSE sanOut.ok /\ IsLegacyName(sanOut.nombre)

\* A label longer than 8 characters was accepted and cut to an 8-character stem.
C9_Witness ==
  /\ sanPc = "out"
  /\ sanOut.ok
  /\ Len(sanLabel) > MaxBase
  /\ Len(sanOut.nombre) = MaxBase + 4

\* C10 as claimed: the labels "" and "..." both yield LOG.CSV.
C10_AsClaimed ==
  (sanPc = "out" /\ sanLabel \in {<<>>, Dots}) =>
    (sanOut.ok /\ sanOut.nombre = LogCsv)

\* C10, amended: the labels "" and "..." both fail with InvalidName and
\* resolve to no filename; LOG.CSV is what an accepted label made only of
\* dropped characters (such as "!") yields.
C10_EmptyAndDots ==
  sanPc = "out" =>
    /\ sanLabel \in {<<>>, Dots} => (~sanOut.ok /\ sanOut.nombre # LogCsv)
    /\ (sanOut.ok /\ \A i \in 1..Len(sanLabel) : sanLabel[i] = "!")
         => sanOut.nombre = LogCsv

\* Both labels of the claim have been refused, and "!" has resolved to LOG.CSV.
C10_Witness ==
  /\ sanPc = "out"
  /\ \/ sanLabel = Dots /\ ~sanOut.ok
     \/ sanLabel = <<"!">> /\ sanOut.nombre = LogCsv

\* The sanitising rule, computed on the whole text: each character of
\* [A-Z0-9] is kept, '-', space and '.' become '_', every other character
\* is dropped.
Mapeado(c) ==
  IF c \in {UpperCase[i] : i \in 1..26} \cup Digits THEN <<c>>
  ELSE IF c \in {"-", " ", "."} THEN <<"_">>
  ELSE <<>>
RECURSIVE Filtrado(_)
Filtrado(s) == IF s = <<>> THEN <<>> ELSE Mapeado(Head(s)) \o Filtrado(Tail(s))
Primeros(s, n) == SubSeq(s, 1, IF Len(s) < n THEN Len(s) ELSE n)
StemOf(l) == Primeros(Filtrado(toUpperCase(trim(l))), MaxBase)

\* C11 as claimed: for every accepted label the filename is the first 8
\* characters of the trimmed, upper-cased and filtered label, followed by
\* ".CSV".
C11_AsClaimed ==
  (sanPc = "out" /\ sanOut.ok) => sanOut.nombre = StemOf(sanLabel) \o CsvExt

\* C11, amended: for every accepted label the filename is the first 8
\* characters of the trimmed, upper-cased and filtered label (dropped
\* characters not counted), or "LOG" when the filter leaves nothing,
\* followed by ".CSV"; "11-12-2025" gives 11_12_20.CSV and "2025-01-14"
\* gives 2025_01_.CSV.
C11_Stem ==
  (sanPc = "out" /\ sanOut.ok) =>
    /\ sanOut.nombre =
         (IF StemOf(sanLabel) = <<>> THEN <<"L", "O", "G">> ELSE StemOf(sanLabel))
           \o CsvExt
    /\ sanLabel = Fecha1 =>
         sanOut.nombre = <<"1","1","_","1","2","_","2","0">> \o CsvExt
    /\ sanLabel = Fecha2 =>
         sanOut.nombre = <<"2","0","2","5","_","0","1","_">> \o CsvExt

\* "11-12-2025" has resolved to a name of 8 + 4 characters.
C11_Witness ==
  /\ sanPc = "out"
  /\ sanLabel = Fecha1
  /\ sanOut.ok
  /\ Len(sanOut.nombre) = MaxBase + 4

(***************************************************************************)
(* Properties of the session, the two command surfaces and the schedule    *)
(***************************************************************************)
Active == estado = 4 /\ logFile.abierto
Globals(r) == <<r.estado, r.nombreArchivo, r.logFile, r.lastLoop, r.tiempo_s, r.sd>>
GlobalsNow == <<estado, nombreArchivo, logFile, lastLoop, tiempo_s, sd>>
Origenes == {"WEB", "SERIAL"}
StartLabels == SeqsOf({"a", "B", "7", " ", ".", "/", "!"}, 0, 2)
Accepted(l) == Len(l) > 0 /\ ~HasRejectedChar(l) /\ ~StartsWithDot(l)
MsgYaActiva(o) == <<<<o, "Ya hay una sesion activa. Para antes la sesion.">>>>
MsgInvalido(o) == <<<<o, "ERROR nombre invalido.">>>>
MsgNoActiva(o) == <<<<o, "No hay sesion activa.">>>>
MsgEnUso == <<<<"WEB", "No se puede borrar el archivo en uso">>>>
LastFire == disparos[Len(disparos)]

\* C1: in every state between loop steps logFile is open if and only if
\* estado = 4 (the session is Active exactly in ControlMode SessionActive),
\* and no step replaces an open handle by another open handle.
C1_HandleIffActive ==
  /\ [](logFile.abierto <=> estado = 4)
  /\ [][(logFile.abierto /\ logFile'.abierto) => logFile' = logFile]_vars

\* A session is running and a second start has just been refused.
C1_Witness ==
  /\ estado = 4 /\ logFile.abierto
  /\ consolaNuevo = MsgYaActiva("WEB")

\* C2 as claimed: while a session is Active, a start with any label, from
\* either surface, fails with AlreadyActive and leaves nombreArchivo,
\* tiempo_s, lastLoop, the handle and estado unchanged.
C2_AsClaimed ==
  Active =>
    \A l \in StartLabels, o \in Origenes, openOk \in BOOLEAN :
      LET r == iniciarSesionMedida(l, o, openOk)
      IN  ~r.ok /\ r.msgs = MsgYaActiva(o) /\ Globals(r) = GlobalsNow

\* C2, amended: while a session is Active, a start from either surface
\* fails and leaves nombreArchivo, tiempo_s, lastLoop, the handle, estado
\* and the card unchanged; it reports AlreadyActive for every label that
\* passes the name check and InvalidName for a label that does not.
C2_StartWhileActive ==
  Active =>
    /\ \A l \in StartLabels, o \in Origenes, openOk \in BOOLEAN :
         LET r == iniciarSesionMedida(l, o, openOk)
         IN  /\ ~r.ok
             /\ r.msgs = IF Accepted(l) THEN MsgYaActiva(o) ELSE MsgInvalido(o)
             /\ Globals(r) = GlobalsNow
    /\ \A l \in StartLabels, openOk \in BOOLEAN :
         Globals(processWebCommand(OpStart, l, openOk)) = GlobalsNow

\* A web start arrived during a session that has already logged a sample.
C2_Witness ==
  /\ Active /\ tiempo_s > 0
  /\ consolaNuevo = MsgYaActiva("WEB")
  /\ pc = "serial"

\* C3: while a session is Active its file stays on the card; a web delete
\* naming that file, in any letter case, is refused with FileBusy and leaves
\* the card as it is; a web delete of any other existing file removes that
\* file and no other; and no console line removes the session's file.
DeleteNames ==
  { FileA, FileB, <<"a", ".", "c", "s", "v">>, <<"b", ".", "C", "s", "V">>,
    <<" ", "A", ".", "C", "S", "V", " ">>, <<"X", ".", "C", "S", "V">> }
C3_DeleteWhileActive ==
  Active =>
    /\ logFile.archivo \in DOMAIN sd
    /\ logFile.archivo = SdKey(nombreArchivo)
    /\ \A n \in DeleteNames :
         LET r == processWebCommand(OpDelete, n, TRUE)
             key == toUpperCase(trim(n))
         IN  IF key = logFile.archivo
               THEN r.sd = sd /\ r.msgs = MsgEnUso /\ Globals(r) = GlobalsNow
               ELSE key \in DOMAIN sd =>
                      /\ DOMAIN r.sd = DOMAIN sd \ {key}
                      /\ \A k \in DOMAIN r.sd : r.sd[k] = sd[k]
    /\ \A e \in {0, 1, 2, 3, 4} : \A raw \in ConsoleLines(e) :
         logFile.archivo \in DOMAIN SerialDispatch(trim(raw), TRUE).sd

\* A web delete of the session's file has just been refused while another
\* file is on the card.
C3_Witness ==
  /\ Active
  /\ consolaNuevo = MsgEnUso
  /\ Cardinality(DOMAIN sd) = 2

\* The lines of the session's file from its last header on.
RECURSIVE LastHeader(_, _)
LastHeader(f, i) ==
  IF i = 0 THEN 0 ELSE IF f[i] = Cabecera THEN i ELSE LastHeader(f, i - 1)
OneSession(n) == <<Cabecera>> \o [i \in 1..n |-> DataLine(i)]

\* C4: when a session whose N sample cycles each appended their record is
\* stopped, the file it wrote reads back as exactly one header line followed
\* by exactly N data lines with t_s = 1, 2, ..., N.
C4_RoundTrip ==
  [][ (Active /\ estado' = 0 /\ SdExists(sd, nombreArchivo)
        /\ LET f == sd[SdKey(nombreArchivo)]
           IN  Len(f) - LastHeader(f, Len(f)) = tiempo_s)
      => sd'[SdKey(nombreArchivo)] = OneSession(tiempo_s) ]_vars

\* C5: every file on the card holds the records of one session only: one
\* header line, never a second one from a later session.
C5_OneSessionPerFile ==
  \A k \in DOMAIN sd :
    Cardinality({i \in 1..Len(sd[k]) : sd[k][i] = Cabecera}) <= 1

\* C6: with no session Active, a stop from either surface reports NotActive
\* and changes neither estado, nombreArchivo, tiempo_s, lastLoop, the handle
\* nor the card, so that a second stop finds the same state and reports the
\* same error.
C6_StopWhenIdle ==
  ~Active =>
    /\ \A o \in Origenes :
         LET r == pararSesionMedida(o)
         IN  r.msgs = MsgNoActiva(o) /\ Globals(r) = GlobalsNow
    /\ LET r == processWebCommand(OpStop, <<>>, TRUE)
       IN  r.msgs = MsgNoActiva("WEB") /\ Globals(r) = GlobalsNow

\* A web stop has just been refused while the console waits at a prompt.
C6_Witness ==
  /\ ~Active
  /\ estado \in {1, 2, 3}
  /\ consolaNuevo = MsgNoActiva("WEB")

\* C7: a sample check that finds at least two periods elapsed since the
\* scheduled fire time performs one sample cycle (tiempo_s grows by one, at
\* most one line is written) and moves lastLoop to exactly one period after
\* its previous value, not to the clock.
C7_LateIteration ==
  [][ (pc = "sample" /\ pc' = "web" /\ Active
        /\ USub(now, lastLoop) >= 2 * PERIODO_LOG_MS)
      => /\ tiempo_s' = tiempo_s + 1
         /\ lastLoop' = UAdd(lastLoop, PERIODO_LOG_MS)
         /\ lastLoop' \notin {now, UAdd(now, PERIODO_LOG_MS)}
         /\ TotalLines(sd') <= TotalLines(sd) + 1 ]_vars

\* The first sample of a session was fired by a check at least two periods late.
C7_Witness ==
  /\ pc = "web" /\ Active
  /\ tiempo_s = 1 /\ Len(disparos) = 1
  /\ USub(LastFire, lastLoop) >= PERIODO_LOG_MS

\* C8 as claimed: after a late iteration has fired its sample, no sample is
\* fired less than one period after it.
C8_AsClaimed ==
  [][ (pc = "sample" /\ Active /\ Len(disparos) > 0
        /\ USub(LastFire, lastLoop) >= PERIODO_LOG_MS
        /\ tiempo_s' = tiempo_s + 1)
      => USub(now, LastFire) >= PERIODO_LOG_MS ]_vars

\* C8, amended: a slow iteration is made up for: after a late iteration has
\* fired its sample, the next sample check of the session fires again however
\* little time has passed, one sample per check, each moving lastLoop on by
\* exactly one period.
C8_CatchUp ==
  [][ (pc = "sample" /\ pc' = "web" /\ Active /\ Len(disparos) > 0
        /\ USub(LastFire, lastLoop) >= PERIODO_LOG_MS)
      => /\ tiempo_s' = tiempo_s + 1
         /\ lastLoop' = UAdd(lastLoop, PERIODO_LOG_MS)
         /\ disparos' = <<LastFire, now>> ]_vars

\* Two samples of one session were fired less than one period apart.
C8_Witness ==
  /\ Active /\ Len(disparos) = 2
  /\ USub(disparos[2], disparos[1]) < PERIODO_LOG_MS


\* A sample cycle whose write failed: the period had elapsed and the card
\* is as it was.
FailedWriteStep == pc = "sample" /\ SampleDue(now) /\ pc' = "web" /\ sd' = sd

\* C12 as claimed: in a sample cycle whose write fails tiempo_s is not
\* incremented, and the session stays Active with its handle open.
C12_AsClaimed ==
  [][FailedWriteStep =>
       (tiempo_s' = tiempo_s /\ estado' = 4 /\ logFile' = logFile /\ logFile.abierto)]_vars

\* C12, amended: in a sample cycle whose write fails tiempo_s is
\* incremented by one all the same and the scheduled fire time advances by
\* one period, and the session stays Active with its handle open.
C12_WriteFails ==
  [][FailedWriteStep =>
       /\ tiempo_s' = tiempo_s + 1
       /\ lastLoop' = UAdd(lastLoop, PERIODO_LOG_MS)
       /\ estado' = 4 /\ logFile' = logFile /\ logFile.abierto]_vars

\* A session that has counted a sample cycle while its file, new at the
\* start, holds the header alone.
C12_Witness ==
  /\ Active
  /\ tiempo_s >= 1
  /\ sd[logFile.archivo] = <<Cabecera>>

\* Trimmed console lines: the three menu letters, "back", and texts that
\* are none of them (a label, a rejected label, a file name, nothing).
Entradas ==
  { <<"a">>, <<"b">>, <<"c">>, Back, <<"x">>, <<>>, <<"a", "/">>, FileA,
    <<"B", "A", "C", "K">> }

\* The ControlMode the transition table gives for mode e and line l, where
\* startOk says whether the start succeeds.
TablaModo(e, l, startOk) ==
  IF e = 0 THEN (IF l = <<"a">> THEN 1 ELSE IF l = <<"b">> THEN 2
                 ELSE IF l = <<"c">> THEN 3 ELSE 0)
  ELSE IF e = 1 THEN (IF l = Back THEN 0 ELSE IF startOk THEN 4 ELSE 0)
  ELSE IF e = 2 \/ e = 3 THEN (IF l = Back THEN 0 ELSE e)
  ELSE IF l = Back THEN 0 ELSE 4

\* C13: in every ControlMode and for every trimmed console line that the
\* console step of loop() may find, the dispatch leaves ControlMode as the transition table says (a start
\* succeeds exactly when the label is accepted and the file opens); after
\* "back" in SessionActive the session is stopped, after any other line in
\* SessionActive it is untouched.
C13_TransitionTable ==
  [](/\ estado \in 0..4
     /\ pc = "serial" =>
        \A l \in Entradas, openOk \in BOOLEAN :
          LET r == SerialDispatch(l, openOk)
          IN  /\ r.estado = TablaModo(estado, l, nombreValidoBasico(l) /\ openOk)
              /\ (estado = 1 /\ l # Back) => (r.ok <=> r.estado = 4)
              /\ r.estado = 4 => r.logFile.abierto
              /\ (estado = 4 /\ l = Back) => ~r.logFile.abierto
              /\ (estado = 4 /\ l # Back) => Globals(r) = GlobalsNow)

\* The start prompt has just refused a label and gone back to the menu.
C13_Witness ==
  /\ pc = "sample"
  /\ estado = 0
  /\ consolaNuevo = MsgInvalido("SERIAL")

\* The requests to /cmd: op is start, stop, delete, unknown or missing.
CmdNames == { <<"a">>, <<".", "a">>, <<"a", ".", "c", "s", "v">>, FileB, <<>> }
CmdRequests ==
  { <<op, name, openOk>> : op \in WebOps, name \in CmdNames, openOk \in BOOLEAN }

\* The messages that tell the result of a start, a stop or a delete.
ResultadoOk ==
  { "Sesion iniciada. Escriba 'back' o use STOP en la web.",
    "Deteniendo sesion de medida...", "Borrado OK" }
ResultadoError ==
  { "ERROR nombre invalido.", "Ya hay una sesion activa. Para antes la sesion.",
    "ERROR no se pudo crear/abrir el archivo en SD.", "No hay sesion activa.",
    "No se puede borrar el archivo en uso", "Error al borrar", "Comando desconocido" }
Textos(msgs) == { msgs[i][2] : i \in 1..Len(msgs) }

\* The command did what it was asked: a session was started, the session
\* was stopped, or a file was removed.
Logrado(r) ==
  \/ estado # 4 /\ r.estado = 4 /\ r.logFile.abierto
  \/ estado = 4 /\ r.estado # 4
  \/ DOMAIN r.sd # DOMAIN sd /\ DOMAIN r.sd \subseteq DOMAIN sd

\* C14: every request to /cmd is answered 200 "OK", whatever op and name
\* are and whether the operation succeeded or failed, so the answer tells
\* nothing; what happened is told by the messages logged with the WEB
\* origin: a success message exactly when the command did what it was
\* asked, an error or refusal otherwise (a delete with an empty name does
\* nothing and logs nothing).
C14_AlwaysOk ==
  [](/\ pc = "web" =>
        \A q \in CmdRequests :
          LET r == processWebCommand(q[1], q[2], q[3])
          IN  /\ RespuestaCmd(r) = Respuesta(200, "OK")
              /\ Logrado(r) <=> Textos(r.msgs) \cap ResultadoOk # {}
              /\ (~Logrado(r) /\ ~(q[1] = OpDelete /\ trim(q[2]) = <<>>))
                   <=> Textos(r.msgs) \cap ResultadoError # {}
              /\ \A i \in 1..Len(r.msgs) : r.msgs[i][1] = "WEB"
     /\ (pc = "serial" /\ consolaNuevo # <<>>) => respuesta = Respuesta(200, "OK"))

\* A /cmd start with a rejected label has just been answered 200 "OK".
C14_Witness ==
  /\ pc = "serial"
  /\ consolaNuevo = MsgInvalido("WEB")
  /\ respuesta = Respuesta(200, "OK")

MsgDeteniendo(o) == <<<<o, "Deteniendo sesion de medida...">>>>

\* C15: a step in which the session goes from Active to Idle is the HTTP
\* command op=stop or the console line "back" read in SessionActive (the
\* two callers of pararSesionMedida); and with a session Active no sample
\* cycle, whatever its write does, no /cmd request other than stop and no
\* console line other than "back" leaves the session other than Active
\* with the handle it had.
C15_OnlyExplicitStop ==
  /\ [][(Active /\ ~Active') =>
          \/ pc = "web" /\ pc' = "serial" /\ consolaNuevo' = MsgDeteniendo("WEB")
          \/ pc = "serial" /\ pc' = "sample" /\ estado = 4
               /\ consolaNuevo' = MsgDeteniendo("SERIAL")]_vars
  /\ [](Active =>
          /\ \A q \in CmdRequests :
               q[1] # OpStop =>
                 LET r == processWebCommand(q[1], q[2], q[3])
                 IN  r.estado = 4 /\ r.logFile = logFile
          /\ \A l \in Entradas, openOk \in BOOLEAN :
               l # Back =>
                 LET r == SerialDispatch(l, openOk)
                 IN  r.estado = 4 /\ r.logFile = logFile
          /\ \A writeOk, okPZEM \in BOOLEAN :
               LET r == SampleCycle(writeOk, okPZEM)
               IN  r.estado = 4 /\ r.logFile = logFile)

\* The session has just been ended by the HTTP command op=stop.
C15_Witness ==
  /\ pc = "serial"
  /\ ~Active
  /\ consolaNuevo = MsgDeteniendo("WEB")

EnLoop(p) == p \in {"web", "serial", "sample"}
MsgFalloAP == Msg("FALLO al crear el AP WiFi.")
EsError(r) == Textos(r.msgs) \cap ResultadoError # {}

\* C16: the sketch halts only at the end of setup() and exactly when the
\* access point could not be created, whatever the sensors and the card
\* answered; once halted it takes no step; once in loop() it stays in
\* loop(); and a command that ends in an error leaves ControlMode in Menu
\* or where it was, and an Active session as it was.
C16_OnlyApFailureHalts ==
  /\ [][pc # "halt"]_vars
  /\ [][pc = "setup" =>
          /\ pc' = "halt" <=> MsgFalloAP \in {consolaNuevo'[i] : i \in 1..Len(consolaNuevo')}
          /\ pc' # "halt" => (pc' = "web" /\ estado' = 0 /\ ~logFile'.abierto)]_vars
  /\ [][EnLoop(pc) => EnLoop(pc')]_vars
  /\ [](/\ pc = "web" =>
            \A q \in CmdRequests :
               LET r == processWebCommand(q[1], q[2], q[3])
               IN  EsError(r) =>
                     /\ r.estado \in {0, estado}
                     /\ Active => (r.estado = 4 /\ r.logFile = logFile)
        /\ pc = "serial" =>
            \A l \in Entradas, openOk \in BOOLEAN :
               LET r == SerialDispatch(l, openOk)
               IN  (~r.ok /\ l # Back) =>
                     /\ r.estado \in {0, estado} \/ estado = 0
                     /\ Active => (r.estado = 4 /\ r.logFile = logFile))

\* The access point could not be created: the sketch has halted after
\* logging it, though the card had been initialised.
C16_Witness ==
  /\ pc = "halt"
  /\ Len(consolaNuevo) = 4
  /\ consolaNuevo[3] = Msg("Tarjeta SD inicializada correctamente")
  /\ consolaNuevo[4] = MsgFalloAP

\* C17: the steps of loop() come in the order HTTP, console, sample check,
\* one of each per iteration; a sample check of an iteration that has
\* stopped a session performs no sample cycle; and a sample cycle is
\* performed only when at least one period has passed since the start of
\* the session, the start setting lastLoop to the clock and tiempo_s to 0.
C17_IterationOrder ==
  /\ [][/\ pc = "web" => pc' \in {"web", "serial"}
        /\ pc = "serial" => pc' \in {"serial", "sample"}
        /\ pc = "sample" => pc' \in {"sample", "web"}
        /\ pc' # pc => now' = now]_vars
  /\ [][(pc = "sample" /\ detenida) =>
          (tiempo_s' = tiempo_s /\ lastLoop' = lastLoop /\ sd' = sd)]_vars
  /\ [][(pc = "sample" /\ tiempo_s' # tiempo_s) =>
          (Active /\ USub(now, t0) >= PERIODO_LOG_MS)]_vars
  /\ [][(pc \in {"web", "serial"} /\ ~Active /\ Active') =>
          (lastLoop' = now /\ tiempo_s' = 0 /\ t0' = now)]_vars

\* An iteration has ended in which a session that was due its first
\* sample was stopped: the sample check has performed no cycle.
C17_Witness ==
  /\ pc = "web"
  /\ detenida
  /\ ~Active
  /\ tiempo_s = 0
  /\ lastLoop = t0
  /\ USub(now, lastLoop) >= PERIODO_LOG_MS

StartStep == pc \in {"web", "serial"} /\ ~Active /\ Active'
SampleStep == pc = "sample" /\ SampleDue(now) /\ pc' = "web"

\* C18: a step that starts a session leaves tiempo_s at 0, a sample cycle
\* adds exactly one to it, and no other step changes it: it stays as it
\* is while no session is Active and across every /cmd request and console
\* line that does not start a session (failed starts, stops, deletes) and
\* every other HTTP request.
C18_SampleCount ==
  /\ [][/\ StartStep => tiempo_s' = 0
        /\ SampleStep => tiempo_s' = tiempo_s + 1
        /\ tiempo_s' # tiempo_s => (StartStep \/ SampleStep)
        /\ tiempo_s' < tiempo_s => (StartStep /\ tiempo_s' = 0)
        /\ (~Active /\ ~Active') => tiempo_s' = tiempo_s]_vars
  /\ [](/\ pc = "web" =>
            \A q \in CmdRequests :
            LET r == processWebCommand(q[1], q[2], q[3])
            IN  r.tiempo_s = IF r.ok THEN 0 ELSE tiempo_s
        /\ pc = "serial" =>
            \A l \in Entradas, openOk \in BOOLEAN :
            LET r == SerialDispatch(l, openOk)
            IN  r.tiempo_s = IF r.ok THEN 0 ELSE tiempo_s)

\* A session has just been started after an earlier one had counted
\* samples (the snapshot still holds a line of that session): the counter
\* is back at 0.
C18_Witness ==
  /\ Active
  /\ tiempo_s = 0
  /\ consolaNuevo # <<>>
  /\ ~ultimaLineaCSV.vacia
  /\ ultimaLineaCSV.t_s >= 1

Centinelas == <<-1, -1, -1, -1, -1, -1>>
CicloDue == pc = "sample" /\ SampleDue(now)

\* What the claim says of a sample cycle whose PZEM read fails, apart from
\* the snapshot: the line has the six PZEM fields at -1, its t_s and INA
\* fields are those of a cycle whose read succeeds, and it goes to the file
\* exactly as then (appended after the lines of the file unless the write
\* itself fails).
RegistroConCentinela(writeOk) ==
  LET r  == SampleCycle(writeOk, FALSE)
      ok == SampleCycle(writeOk, TRUE)
  IN  /\ Len(r.serie) = 1 /\ r.serie[1].tipo = "dato"
      /\ PzemDe(r.serie[1]) = Centinelas
      /\ PzemDe(ok.serie[1]) = PzemLeido
      /\ InaDe(r.serie[1]) = InaLeido /\ InaDe(ok.serie[1]) = InaLeido
      /\ r.serie[1].campos[1] = tiempo_s + 1
      /\ r.tiempo_s = tiempo_s + 1
      /\ r.sd = ok.sd
      /\ writeOk => r.sd = [sd EXCEPT ![logFile.archivo] =
                                Append(@, DataLine(tiempo_s + 1))]

\* C19 as claimed: in a sample cycle whose PZEM read fails the record is
\* written with the six PZEM fields at -1 and the other fields unaffected,
\* and the snapshot is left with current and power at -1.
C19_AsClaimed ==
  CicloDue =>
    \A writeOk \in BOOLEAN :
      /\ RegistroConCentinela(writeOk)
      /\ LET r == SampleCycle(writeOk, FALSE)
         IN  /\ ~r.web.vacia /\ r.web.ipz = -1 /\ r.web.ppz = -1
             /\ r.ultimaLineaCSV = Guardada(r.web)

\* C19, amended: in a sample cycle whose PZEM read fails the record is
\* written with the six PZEM fields at -1 and the other fields unaffected;
\* the snapshot is refreshed only if PERIODO_WEB_MS has passed since its
\* last refresh, and then it is this cycle's line with current and power
\* at -1; otherwise it stays the line of an earlier cycle.
C19_Sentinel ==
  [](CicloDue =>
       \A writeOk \in BOOLEAN :
         /\ RegistroConCentinela(writeOk)
         /\ LET r == SampleCycle(writeOk, FALSE)
            IN  IF USub(now, lastWebPushMs) >= PERIODO_WEB_MS
                  THEN /\ ~r.web.vacia /\ r.web.ipz = -1 /\ r.web.ppz = -1
                       /\ r.web.t_s = tiempo_s + 1
                       /\ r.ultimaLineaCSV = Guardada(r.web)
                       /\ r.lastWebPushMs = now
                  ELSE /\ r.web.vacia
                       /\ r.ultimaLineaCSV = ultimaLineaCSV
                       /\ r.lastWebPushMs = lastWebPushMs)

\* A sample cycle whose PZEM read failed has just written its line and
\* refreshed the snapshot.
C19_Witness ==
  /\ pc = "web"
  /\ Len(serieNuevo) = 1
  /\ serieNuevo[1].tipo = "dato"
  /\ PzemDe(serieNuevo[1]) = Centinelas
  /\ Active
  /\ Len(sd[logFile.archivo]) >= 2
  /\ sd[logFile.archivo][Len(sd[logFile.archivo])] = DataLine(tiempo_s)
  /\ ~webNuevo.vacia /\ webNuevo.ipz = -1

\* C20: the console buffer mirrors the console: a sample record echoed to
\* the console in a sample cycle is appended to the buffer too, that is, no
\* step writes a sample record to Serial alone.
C20_RecordMirrored ==
  \A i \in 1..Len(serieNuevo) : serieNuevo[i].tipo # "dato"

(***************************************************************************)
(* logMsg() and the console buffer                                         *)
(***************************************************************************)
MaxLogs == 3          \* the number of logMsg calls followed
MAX_LEN == 6000

\* String::substring(from): the text from index `from` (0-based) to the end.
substring(s, from) == SubSeq(s, from + 1, Len(s))

\* A faulty variant of logMsg: the buffer keeps its first MAX_LEN characters.
logMsg_RecortaFinal(buf, msg) ==
  LET s == buf \o msg \o <<"\n">>
  IN  IF Len(s) > MAX_LEN THEN SubSeq(s, 1, MAX_LEN) ELSE s

\* consola += msg + "\n"; if (consola.length() > MAX_LEN)
\*   consola = consola.substring(consola.length() - MAX_LEN);
logMsg(buf, msg) ==
  LET s == buf \o msg \o <<"\n">>
  IN  IF Len(s) > MAX_LEN THEN substring(s, Len(s) - MAX_LEN) ELSE s

\* Messages of n characters: a capital first, then the text.  The short
\* ones stand for the fixed texts, the long ones for the texts that carry
\* what was received ("WEB: Borrando " + fname, "WEB: Comando desconocido: "
\* + op, "Archivo borrado: " + entrada), which has no length limit.
Mensaje(h, n) == [i \in 1..n |-> IF i = 1 THEN h ELSE "x"]
LargosMsg == {1, MAX_LEN \div 2, MAX_LEN - 1, MAX_LEN}
Mensajes == { Mensaje(h, n) : h \in {"A", "B"}, n \in LargosMsg }

LogInit ==
  /\ pc = "setup"
  /\ estado = 0
  /\ nombreArchivo = <<>>
  /\ logFile = NoFile
  /\ lastLoop = 0
  /\ tiempo_s = 0
  /\ now = 0
  /\ sd \in InitialCards
  /\ consolaNuevo = <<>>
  /\ disparos = <<>>
  /\ respuesta = SinRespuesta
  /\ ultimaLineaCSV = Guardada(SinLinea) /\ lastWebPushMs = 0
  /\ serieNuevo = <<>> /\ webNuevo = SinLinea
  /\ t0 = 0 /\ detenida = FALSE
  /\ sanPc = "off" /\ sanLabel = <<>> /\ sanOut = [ok |-> FALSE, nombre |-> <<>>]
  /\ logPc = "log" /\ consola = <<>> /\ todo = <<>> /\ ultimoMsg = <<>>
  /\ llamadas = 0
  /\ real = 0 /\ arranque = 0

\* One call of logMsg.
LogCall ==
  /\ logPc = "log"
  /\ llamadas < MaxLogs
  /\ llamadas' = llamadas + 1
  /\ \E msg \in Mensajes :
       /\ consola' = logMsg(consola, msg)
       /\ todo' = todo \o msg \o <<"\n">>
       /\ ultimoMsg' = msg
  /\ UNCHANGED <<pc, sesionVars, now, consolaNuevo, serieNuevo, webNuevo, respuesta,
                 histVars, sanVars, logPc, relojVars>>

LogNext == LogCall

SpecLog == LogInit /\ [][LogNext]_vars

\* The last n characters of s (all of s when it is shorter).
Final(s, n) == IF Len(s) > n THEN SubSeq(s, Len(s) - n + 1, Len(s)) ELSE s
ConSalto(msg) == msg \o <<"\n">>
EnteroAlFinal(buf, msg) ==
  Len(buf) >= Len(ConSalto(msg)) /\ Final(buf, Len(ConSalto(msg))) = ConSalto(msg)

\* C21 as claimed: after every logMsg call the buffer holds at most MAX_LEN
\* characters, it is the last MAX_LEN characters of everything logged so
\* far, and the most recent message is in it whole.
C21_AsClaimed ==
  (logPc = "log" /\ llamadas >= 1) =>
    /\ Len(consola) <= MAX_LEN
    /\ consola = Final(todo, MAX_LEN)
    /\ EnteroAlFinal(consola, ultimoMsg)

\* C21, amended: after every logMsg call the buffer holds at most MAX_LEN
\* characters and is the last MAX_LEN characters of everything logged so
\* far, each message followed by its newline; the most recent message is in
\* it whole if it has fewer than MAX_LEN characters, and otherwise the
\* buffer is the end of that message alone, without its beginning.
C21_LastChars ==
  (logPc = "log" /\ llamadas >= 1) =>
    /\ Len(consola) <= MAX_LEN
    /\ consola = Final(todo, MAX_LEN)
    /\ consola[Len(consola)] = "\n"
    /\ IF Len(ultimoMsg) < MAX_LEN
         THEN EnteroAlFinal(consola, ultimoMsg)
         ELSE /\ consola = Final(ConSalto(ultimoMsg), MAX_LEN)
              /\ \A i \in 1..Len(consola) : consola[i] # ultimoMsg[1]

\* The buffer has been cut from the front: part of an earlier message is
\* gone and the latest message is there whole after what is left of it.
C21_Witness ==
  /\ logPc = "log"
  /\ llamadas >= 2
  /\ Len(todo) > MAX_LEN
  /\ Len(consola) = MAX_LEN
  /\ Len(ultimoMsg) < MAX_LEN - 1
  /\ EnteroAlFinal(consola, ultimoMsg)
  /\ consola[1] = "x"

\* C22: while a session is Active, lastLoop = T0 + tiempo_s * period, where
\* T0 is the value of millis() at the start of the session, and lastLoop is
\* never ahead of the clock, so tiempo_s <= floor((now - T0) / period); a
\* sample cycle keeps this by adding one period and one count together.
C22_Locked ==
  /\ [](Active =>
          /\ lastLoop = t0 + tiempo_s * PERIODO_LOG_MS
          /\ lastLoop <= now
          /\ tiempo_s <= (now - t0) \div PERIODO_LOG_MS)
  /\ [][(pc = "sample" /\ SampleDue(now) /\ pc' = "web") =>
          /\ lastLoop' = lastLoop + PERIODO_LOG_MS
          /\ tiempo_s' = tiempo_s + 1
          /\ lastLoop' <= now']_vars

\* A session started after start-up has just taken its first sample, late.
C22_Witness ==
  /\ Active
  /\ pc = "web"
  /\ t0 > 0
  /\ tiempo_s = 1
  /\ lastLoop = t0 + PERIODO_LOG_MS
  /\ lastLoop < now
  /\ Len(serieNuevo) = 1 /\ serieNuevo[1].tipo = "dato"

\* C23: a /cmd request that neither starts nor stops a session (a start
\* that fails for any reason, a stop with no session, any delete, an
\* unknown op) leaves estado as it was, so a console prompt waiting for a
\* name is still waiting for it afterwards.
C23_ModeUnchanged ==
  pc = "web" =>
    \A q \in CmdRequests :
      LET r == processWebCommand(q[1], q[2], q[3])
      IN  (~r.ok /\ ~(q[1] = OpStop /\ Active)) => r.estado = estado

MsgBorradoEnUso == Msg("ERROR: No puedes borrar el archivo en uso. Para la sesion primero.")
NombresConsola == Entradas \cup {nombreArchivo, FileA, FileB}

\* C24: whenever estado is 2 or 3 (the console waits for the name of a file
\* to read or to delete) no session is Active and logFile is closed, also
\* when /cmd start requests come in between: a start that succeeds while
\* the console waits there moves estado to 4.  So the console reads or
\* deletes a file only while no session runs, and the refusal branch of
\* the console delete is never taken, whatever name is typed.
C24_PromptsIdle ==
  /\ [](estado \in {2, 3} => (~Active /\ ~logFile.abierto))
  /\ []((pc = "web" /\ estado \in {2, 3}) =>
          \A q \in CmdRequests :
            LET r == processWebCommand(q[1], q[2], q[3])
            IN  r.logFile.abierto => r.estado = 4)
  /\ []((pc = "serial" /\ estado = 3) =>
          \A l \in NombresConsola :
            /\ ~SerialEnUso(l)
            /\ \A i \in 1..Len(SerialBorrar(l).msgs) :
                 SerialBorrar(l).msgs[i] # MsgBorradoEnUso)
  /\ [][(pc = "serial" /\ pc' = "sample"
           /\ (~(DOMAIN sd \subseteq DOMAIN sd')
                 \/ \E i \in 1..Len(serieNuevo') : serieNuevo'[i].tipo = "volcado"))
        => (estado \in {2, 3} /\ ~Active /\ ~Active')]_vars
  /\ [][\A i \in 1..Len(consolaNuevo') : consolaNuevo'[i] # MsgBorradoEnUso]_vars

\* The console, waiting for a name to delete, has just removed the file of
\* the last session: the session had been stopped, so the handle was closed
\* and the name, though equal to nombreArchivo, was not refused.
C24_Witness ==
  /\ pc = "sample"
  /\ estado = 3
  /\ Len(consolaNuevo) = 2
  /\ consolaNuevo[1] = Msg("Archivo borrado")
  /\ Len(nombreArchivo) > 0
  /\ ~SdExists(sd, nombreArchivo)
  /\ ~logFile.abierto

(***************************************************************************)
(* The period test across the wrap-around of millis()                      *)
(***************************************************************************)
\* A session is running, started shortly before millis() wraps around:
\* `real` counts the milliseconds since start-up without wrapping, `now` is
\* what millis() returns, and lastLoop is the millis() of the start.
Arranques ==
  { ULongMod - d : d \in {1, TickMs, PERIODO_LOG_MS, PERIODO_LOG_MS + 1,
                          PERIODO_LOG_MS + TickMs} }

RelojInit ==
  /\ pc = "web"
  /\ estado = 4
  /\ nombreArchivo = FileA
  /\ logFile = [abierto |-> TRUE, archivo |-> SdKey(FileA)]
  /\ real \in Arranques
  /\ arranque = real
  /\ now = real % ULongMod
  /\ lastLoop = now
  /\ tiempo_s = 0
  /\ sd = SdAppend([k \in {} |-> <<>>], FileA, Cabecera)
  /\ consolaNuevo = <<>>
  /\ disparos = <<>>
  /\ respuesta = SinRespuesta
  /\ ultimaLineaCSV = Guardada(SinLinea) /\ lastWebPushMs = 0
  /\ serieNuevo = <<>> /\ webNuevo = SinLinea
  /\ t0 = now /\ detenida = FALSE
  /\ sanPc = "off" /\ sanLabel = <<>> /\ sanOut = [ok |-> FALSE, nombre |-> <<>>]
  /\ logPc = "off" /\ consola = <<>> /\ todo = <<>> /\ ultimoMsg = <<>>
  /\ llamadas = 0

\* Time passes: millis() wraps around, the milliseconds since start-up do not.
RelojTick ==
  /\ pc \in {"web", "serial", "sample"}
  /\ real < arranque + MaxNow * TickMs
  /\ real' = real + TickMs
  /\ now' = UAdd(now, TickMs)
  /\ UNCHANGED <<pc, sesionVars, consolaNuevo, serieNuevo, webNuevo, respuesta, histVars,
                 sanVars, logVars, arranque>>

RelojNext ==
  \/ RelojTick
  \/ WebNoCmd
  \/ SerialNoInput
  \/ SampleFire
  \/ SampleSkip

SpecReloj == RelojInit /\ [][RelojNext]_vars

\* The scheduled fire time, in milliseconds since start-up.
Vence == arranque + tiempo_s * PERIODO_LOG_MS

\* C25: the period test is right across the wrap-around of the clock: with
\* millis() and lastLoop taken modulo 2^ClockBits, and the real lateness
\* below 2^ClockBits, a sample cycle runs exactly when at least one period
\* of real time has passed since the scheduled fire time, also when
\* lastLoop += PERIODO_LOG_MS itself wraps around.
C25_WrapAround ==
  /\ [](/\ now = real % ULongMod
        /\ lastLoop = Vence % ULongMod
        /\ Vence <= real)
  /\ []((pc = "sample" /\ real - Vence < ULongMod) =>
          (SampleDue(now) <=> real - Vence >= PERIODO_LOG_MS))
  /\ [][(pc = "sample" /\ pc' = "web" /\ real - Vence < ULongMod) =>
          /\ tiempo_s' = tiempo_s + 1 <=> real - Vence >= PERIODO_LOG_MS
          /\ tiempo_s' # tiempo_s + 1 => (tiempo_s' = tiempo_s /\ lastLoop' = lastLoop)]_vars

\* A sample cycle has just run whose lastLoop += PERIODO_LOG_MS wrapped
\* around, after the clock had wrapped around itself.
C25_Witness ==
  /\ pc = "web"
  /\ Len(serieNuevo) = 1 /\ serieNuevo[1].tipo = "dato"
  /\ tiempo_s >= 1
  /\ Vence >= ULongMod
  /\ Vence - PERIODO_LOG_MS < ULongMod
  /\ lastLoop = Vence - ULongMod
  /\ real >= ULongMod
  /\ now = real - ULongMod

=============================================================================
